---- MODULE Spec2Model ----
(***************************************************************************)
(* Backtesting and hypothesis-validation engine of dyoburon/datafeeds.     *)
(*                                                                         *)
(* The store (Backtester.data) is a price series with one forward-return   *)
(* column per horizon.  A period string such as "1W" is a sequence of its  *)
(* characters, <<"1","W">>, so that parse_period is computed on the text.  *)
(* A predicate source is a record saying what exec() and condition(data)   *)
(* do with it.  The validation loop of run_daily_insight_generation is a   *)
(* sequential process whose position is pc; every call to the language-    *)
(* model collaborator is a step with a nondeterministic outcome.           *)
(*                                                                         *)
(* Spec      run_daily_insight_generation on a constructed store           *)
(* SpecDyn   run_dynamic_scenario and run_saved_query                      *)
(* SpecBoot  threads in their first calls of get_backtester                *)
(* SpecMemo  threads in get_signals, beside analyze calls                  *)
(* SpecStore single calls of analyze, get_signals, get_baseline_stats      *)
(* SpecLong  analyze on a store with ten years of history                  *)
(***************************************************************************)
EXTENDS Integers, Sequences, FiniteSets, TLC

\* ------------------------------------------------------------------ bounds
\* Number of trading days of the store.
NDays == 7
\* Largest number of hypotheses generate_daily_insights returns.
MaxQuestions == 2
\* Number of threads that call get_backtester (the scheduler's job thread
\* and the server's request threads).
NThreads == 2
\* Largest number of days of a sampled mask of a call on the store.
MaxMaskDays == 2
\* Number of trading days of a store that has a 10-year forward return.
LongDays == 2521

\* --------------------------------------------------------------- constants
\* services.py:320
max_attempts == 3

\* ------------------------------------------------------------ period text
Digits == <<"0", "1", "2", "3", "4", "5", "6", "7", "8", "9">>

IsDigit(c) == \E k \in 1..10 : Digits[k] = c

DigitVal(c) == (CHOOSE k \in 1..10 : Digits[k] = c) - 1

RECURSIVE DecimalVal(_)
DecimalVal(s) ==
    IF Len(s) = 0 THEN 0
    ELSE 10 * DecimalVal(SubSeq(s, 1, Len(s) - 1)) + DigitVal(s[Len(s)])

AllDigits(s) == Len(s) > 0 /\ \A k \in 1..Len(s) : IsDigit(s[k])

\* Python int(text): the value of an optionally signed decimal literal, and
\* ValueError for any other text (the empty text included).
PyInt(s) ==
    IF AllDigits(s) THEN [ok |-> TRUE, isNone |-> FALSE, v |-> DecimalVal(s)]
    ELSE IF Len(s) > 1 /\ s[1] \in {"-", "+"} /\ AllDigits(Tail(s))
         THEN [ok |-> TRUE, isNone |-> FALSE,
               v |-> IF s[1] = "-" THEN 0 - DecimalVal(Tail(s))
                                   ELSE DecimalVal(Tail(s))]
         ELSE [ok |-> FALSE, isNone |-> FALSE, v |-> 0]

PeriodNone == [ok |-> TRUE, isNone |-> TRUE, v |-> 0]

Times(r, k) == IF r.ok THEN [r EXCEPT !.v = r.v * k] ELSE r

\* parse_period(p): ok = FALSE is the ValueError of int(); isNone is the
\* `return None` of an unknown unit.
parse_period(p) ==
    IF Len(p) = 0 THEN PeriodNone
    ELSE LET unit == p[Len(p)]
             head == SubSeq(p, 1, Len(p) - 1)
         IN  CASE unit = "D" -> PyInt(head)
               [] unit = "W" -> Times(PyInt(head), 5)
               [] unit = "M" -> Times(PyInt(head), 21)
               [] unit = "Y" -> Times(PyInt(head), 252)
               [] OTHER -> PeriodNone

\* `if days:` of analyze and get_signals: an int other than 0.
Truthy(r) == r.ok /\ ~r.isNone /\ r.v # 0

\* ------------------------------------------------------------------ store
\* A forward return is NaN or the exact fraction num/den.
NaN == [nan |-> TRUE, num |-> 0, den |-> 1]

\* FwdReturn with shift(days) for shift(-days): the price `days` earlier.
FwdReturn_lookback(price, days) ==
    [i \in 1..Len(price) |->
        IF (i - days) \in 1..Len(price)
        THEN [nan |-> FALSE, num |-> price[i - days] - price[i], den |-> price[i]]
        ELSE NaN]

\* data['Adj Close'].shift(-days) / data['Adj Close'] - 1
FwdReturn(price, days) ==
    [i \in 1..Len(price) |->
        IF (i + days) \in 1..Len(price)
        THEN [nan |-> FALSE, num |-> price[i + days] - price[i], den |-> price[i]]
        ELSE NaN]

\* The periods dict of _precalculate_forward_returns.
canonical_periods ==
    (<<"1", "W">> :> 5) @@ (<<"1", "M">> :> 21) @@ (<<"3", "M">> :> 63) @@
    (<<"6", "M">> :> 126) @@ (<<"1", "Y">> :> 252) @@ (<<"3", "Y">> :> 756) @@
    (<<"5", "Y">> :> 1260) @@ (<<"1", "0", "Y">> :> 2520)

\* The FwdReturn_<name> columns the constructor adds, keyed by <name>.
_precalculate_forward_returns(price) ==
    [p \in DOMAIN canonical_periods |-> FwdReturn(price, canonical_periods[p])]

\* The default horizon list of _execute_code.
default_periods ==
    << <<"1", "W">>, <<"1", "M">>, <<"3", "M">>, <<"6", "M">>,
       <<"1", "Y">>, <<"3", "Y">>, <<"5", "Y">>, <<"1", "0", "Y">> >>

\* ------------------------------------------------------------- Backtester
\* A condition's return value as frame[...] sees it: shape "mask" is a boolean
\* series over the trading days (m), "columns" a list of column labels that
\* holds 'Adj Close' (the frame then selects every row), "invalid" anything
\* the frame rejects with an exception (None, a scalar, a wrong-length list).
BoolMask(price, days) ==
    [shape |-> "mask", m |-> [i \in 1..Len(price) |-> i \in days]]

AllTrue(price) == BoolMask(price, 1..Len(price))

AllFalse(price) == BoolMask(price, {})

\* The source of a predicate: what exec(code) and condition(data) do.
\*   syntax_error  exec raises
\*   no_condition  exec defines no `condition`
\*   raises        condition(data) raises
\*   mask          condition(data) is the boolean mask true on `days`
\*   mutates       condition(data) assigns data['Adj Close'] its running
\*                 maximum and is the boolean mask true on `days`
\*   columns       condition(data) is a list of labels holding 'Adj Close'
\*   invalid       condition(data) is a value the frame cannot index by
\*   imports       the source starts with `import os` and condition(data)
\*                 is the boolean mask true on `days`
\*   empty         the empty text "" (no code generated)
Program(kind, days) == [kind |-> kind, days |-> days]

NoCode == Program("empty", {})

Max(S) == CHOOSE x \in S : \A y \in S : y <= x

Min(S) == CHOOSE x \in S : \A y \in S : x <= y

\* data['Adj Close'].cummax()
CumMax(price) == [i \in 1..Len(price) |-> Max({price[j] : j \in 1..i})]

\* The 'Adj Close' column of self.data after condition_func(self.data):
\* the condition is handed the store's own frame, not a copy.
condition_effect(price, code) ==
    IF code.kind = "mutates" THEN CumMax(price) ELSE price

\* filter_dates(condition_func): the call is guarded, and an exception of
\* the condition becomes the all-False mask.
filter_dates(price, code) ==
    CASE code.kind = "raises" -> AllFalse(price)
      [] code.kind \in {"mask", "mutates", "imports"} -> BoolMask(price, code.days)
      [] code.kind = "columns" -> [shape |-> "columns", m |-> AllTrue(price).m]
      [] OTHER -> [shape |-> "invalid", m |-> AllFalse(price).m]

\* self.data[condition_mask]: the selected days.
Subset(price, condition_mask) ==
    IF condition_mask.shape = "mask"
    THEN {i \in 1..Len(price) : condition_mask.m[i]}
    ELSE 1..Len(price)

EmptyDict == [p \in {} |-> 0]

InRange(seq, x) == \E k \in 1..Len(seq) : seq[k] = x

\* An analysis: raised says analyze ended in an exception (exc), otherwise
\* count and the per-period entries val, keys being the insertion order.
NoAnalysis == [raised |-> FALSE, exc |-> "", count |-> 0, keys |-> <<>>, val |-> EmptyDict]

Raised(exc) == [NoAnalysis EXCEPT !.raised = TRUE, !.exc = exc]

DictSet(results, k, v) ==
    [results EXCEPT !.keys = IF InRange(@, k) THEN @ ELSE Append(@, k),
                    !.val = (k :> v) @@ @]

\* ------------------------------------------------------------- statistics
\* An exact rational num/den, den > 0, in lowest terms.
RECURSIVE GCD(_, _)
GCD(a, b) == IF b = 0 THEN a ELSE GCD(b, a % b)

Abs(x) == IF x < 0 THEN 0 - x ELSE x

Frac(num, den) ==
    LET g == GCD(Abs(num), Abs(den))
        sgn == IF den < 0 THEN 0 - 1 ELSE 1
    IN  [num |-> sgn * (num \div g), den |-> sgn * (den \div g)]

Zero == [num |-> 0, den |-> 1]

FracAdd(a, b) == Frac(a.num * b.den + b.num * a.den, a.den * b.den)

\* a > b
FracGreater(a, b) == a.num * b.den > b.num * a.den

\* vals.sum() over the days lo..hi of vals, by halves.
RECURSIVE SumReturns(_, _, _, _)
SumReturns(col, vals, lo, hi) ==
    IF lo > hi THEN Zero
    ELSE IF lo = hi
    THEN IF lo \in vals THEN Frac(col[lo].num, col[lo].den) ELSE Zero
    ELSE LET mid == (lo + hi) \div 2
         IN  FracAdd(SumReturns(col, vals, lo, mid), SumReturns(col, vals, mid + 1, hi))

\* vals.mean()
Mean(col, vals) ==
    LET sum == SumReturns(col, vals, Min(vals), Max(vals))
    IN  Frac(sum.num, sum.den * Cardinality(vals))

\* A CAGR: None, or the real number base^(1/years) - 1, kept as its base
\* and its root.
NoCagr == [isNone |-> TRUE, base |-> Zero, years |-> 0]

\* An entry that is a text in place of a stats dict.
Marker(text) == [tag |-> text, n |-> 0, wins |-> 0]

\* Stats with `len(vals) >= 0` for `len(vals) > 0`.
Stats_without_marker(col, sub) ==
    LET vals == {i \in sub : ~col[i].nan}
    IN  [tag |-> "stats", n |-> Cardinality(vals),
         wins |-> Cardinality({i \in vals : col[i].num > 0}),
         mean |-> Zero, cagr |-> NoCagr]

\* Stats with `vals >= 0` for `vals > 0` in the win rate.
Stats_wins_with_zero(col, sub) ==
    LET vals == {i \in sub : ~col[i].nan}
    IN  IF Cardinality(vals) > 0
        THEN [tag |-> "stats", n |-> Cardinality(vals),
              wins |-> Cardinality({i \in vals : col[i].num >= 0}),
              mean |-> Mean(col, vals), cagr |-> NoCagr]
        ELSE Marker("Data not available")

\* Lines 81-91, 106: the stats dict of the non-null values of column col on
\* the days sub: n is len(vals), win_rate is wins/n, mean the exact mean
\* (median, std, min and max are not kept), or the marker when all are null.
Stats(col, sub) ==
    LET vals == {i \in sub : ~col[i].nan}
    IN  IF Cardinality(vals) > 0
        THEN [tag |-> "stats", n |-> Cardinality(vals),
              wins |-> Cardinality({i \in vals : col[i].num > 0}),
              mean |-> Mean(col, vals), cagr |-> NoCagr]
        ELSE Marker("Data not available")

\* Line 94.
period_years ==
    (<<"3", "Y">> :> 3) @@ (<<"5", "Y">> :> 5) @@ (<<"1", "0", "Y">> :> 10)

MinusOne == [num |-> 0 - 1, den |-> 1]

\* with_cagr with `>=` for `>` at line 97.
with_cagr_inclusive(period, stats) ==
    IF stats.tag # "stats" THEN stats
    ELSE IF period \in DOMAIN period_years
    THEN IF ~FracGreater(MinusOne, stats.mean)
         THEN [stats EXCEPT !.cagr = [isNone |-> FALSE,
                                      base |-> FracAdd([num |-> 1, den |-> 1], stats.mean),
                                      years |-> period_years[period]]]
         ELSE [stats EXCEPT !.cagr = NoCagr]
    ELSE [stats EXCEPT !.cagr = NoCagr]

\* Lines 93-104: stats['cagr'] of the entry of `period`.
with_cagr(period, stats) ==
    IF stats.tag # "stats" THEN stats
    ELSE IF period \in DOMAIN period_years
    THEN IF FracGreater(stats.mean, MinusOne)
         THEN [stats EXCEPT !.cagr = [isNone |-> FALSE,
                                      base |-> FracAdd([num |-> 1, den |-> 1], stats.mean),
                                      years |-> period_years[period]]]
         ELSE [stats EXCEPT !.cagr = NoCagr]
    ELSE [stats EXCEPT !.cagr = NoCagr]

\* The loop of analyze with `break` for the `continue` of line 78: it stops
\* at the first horizon marked "Invalid period format".
RECURSIVE analyze_loop_break(_, _, _, _, _, _)
analyze_loop_break(price, cols, sub, periods, k, results) ==
    IF k > Len(periods) THEN results
    ELSE LET period == periods[k]
             days == parse_period(period)
         IN  IF period \in DOMAIN cols
             THEN analyze_loop_break(price, cols, sub, periods, k + 1,
                               DictSet(results, period,
                                       with_cagr(period, Stats(cols[period], sub))))
             ELSE IF ~days.ok THEN Raised("ValueError")
             ELSE IF Truthy(days)
             THEN analyze_loop_break(price, cols, sub, periods, k + 1,
                      DictSet(results, period,
                              with_cagr(period, Stats(FwdReturn(price, days.v), sub))))
             ELSE DictSet(results, period, Marker("Invalid period format"))

\* The `for period in periods` loop of analyze, from position k on.
RECURSIVE analyze_loop(_, _, _, _, _, _)
analyze_loop(price, cols, sub, periods, k, results) ==
    IF k > Len(periods) THEN results
    ELSE LET period == periods[k]
             days == parse_period(period)
         IN  IF period \in DOMAIN cols
             THEN analyze_loop(price, cols, sub, periods, k + 1,
                               DictSet(results, period,
                                       with_cagr(period, Stats(cols[period], sub))))
             ELSE IF ~days.ok THEN Raised("ValueError")
             ELSE IF Truthy(days)
             THEN analyze_loop(price, cols, sub, periods, k + 1,
                      DictSet(results, period,
                              with_cagr(period, Stats(FwdReturn(price, days.v), sub))))
             ELSE analyze_loop(price, cols, sub, periods, k + 1,
                      DictSet(results, period, Marker("Invalid period format")))

\* analyze with len(vals) of the last period for len(subset) as the count.
analyze_count_of_values(price, cols, condition_mask, periods) ==
    IF condition_mask.shape = "invalid" THEN Raised("KeyError")
    ELSE LET sub == Subset(price, condition_mask)
             r == analyze_loop(price, cols, sub, periods, 1,
                               [NoAnalysis EXCEPT !.count = Cardinality(sub)])
         IN  IF Cardinality(sub) = 0 THEN NoAnalysis
             ELSE IF r.raised \/ Len(r.keys) = 0 THEN r
             ELSE [r EXCEPT !.count = r.val[r.keys[Len(r.keys)]].n]

analyze(price, cols, condition_mask, periods) ==
    IF condition_mask.shape = "invalid" THEN Raised("KeyError")
    ELSE LET sub == Subset(price, condition_mask)
         IN  IF Cardinality(sub) = 0 THEN NoAnalysis
             ELSE analyze_loop(price, cols, sub, periods, 1,
                               [NoAnalysis EXCEPT !.count = Cardinality(sub)])

\* get_baseline_stats dropping its argument for the canonical horizons.
get_baseline_stats_canonical(price, cols, periods) ==
    analyze(price, cols, AllTrue(price), default_periods)

get_baseline_stats(price, cols, periods) ==
    analyze(price, cols, AllTrue(price), periods)

\* Line 157 with shift(days) for shift(-days).
memoize_column_backward(price, days) == FwdReturn(price, 0 - days)

\* Line 157: the column get_signals stores for a missing horizon.
memoize_column(price, days) == FwdReturn(price, days)

\* The `for p in periods` loop of get_signals, from position k on: the
\* store's columns after it (a missing parseable column is memoized), the
\* columns to return, and whether int() raised on the way.
RECURSIVE get_signals_loop(_, _, _, _, _)
get_signals_loop(price, cols, periods, k, ret) ==
    IF k > Len(periods) THEN [raised |-> FALSE, cols |-> cols, ret |-> ret]
    ELSE LET p == periods[k]
             days == parse_period(p)
         IN  IF p \in DOMAIN cols
             THEN get_signals_loop(price, cols, periods, k + 1, Append(ret, p))
             ELSE IF ~days.ok THEN [raised |-> TRUE, cols |-> cols, ret |-> ret]
             ELSE IF Truthy(days)
             THEN get_signals_loop(price, (p :> memoize_column(price, days.v)) @@ cols,
                                   periods, k + 1, Append(ret, p))
             ELSE get_signals_loop(price, cols, periods, k + 1, ret)

\* format_signals(get_signals(mask, periods)): one record per selected day,
\* keyed by the day, with the price and each returned forward return (NaN
\* standing for None).  The max_samples cap (3000 rows) is beyond NDays.
get_signals(price, cols, condition_mask, periods) ==
    IF condition_mask.shape = "invalid"
    THEN [raised |-> TRUE, cols |-> cols, rows |-> EmptyDict]
    ELSE LET r == get_signals_loop(price, cols, periods, 1, <<>>)
             sub == Subset(price, condition_mask)
         IN  [raised |-> r.raised, cols |-> r.cols,
              rows |-> IF r.raised THEN EmptyDict
                       ELSE [i \in sub |->
                               [price |-> price[i],
                                fwd |-> [q \in {r.ret[j] : j \in 1..Len(r.ret)} |->
                                            r.cols[q][i]]]]]

\* --------------------------------------------------------------- services
\* A horizon list as the generator gives it: None, or a list of periods.
NonePeriods == [isNone |-> TRUE, list |-> <<>>]

SomePeriods(list) == [isNone |-> FALSE, list |-> list]

NoError == [msg |-> "", exc |-> ""]

\* The dict _execute_code returns; keys are the entries it holds.
ErrorResult(msg, exc) ==
    [keys |-> {"error"}, error |-> [msg |-> msg, exc |-> exc],
     results |-> NoAnalysis, control |-> NoAnalysis, signals |-> EmptyDict,
     generated_code |-> NoCode]

NoResult == [ErrorResult("", "") EXCEPT !.keys = {}]

ExecutionError(exc) == ErrorResult("Error executing generated condition", exc)

\* The names of the dict handed to exec as the globals of the source.
local_scope == {"pd", "expand_monthly_mask"}

\* Names of the builtins module that reach outside the predicate.
Builtins == {"__import__", "open", "eval", "exec"}

\* exec(code, globals): when globals holds no "__builtins__" key, Python
\* inserts a reference to the builtins module under it before running.
exec_globals(scope) == scope \cup {"__builtins__"}

\* Name lookup of the executed source: its globals, then the builtins.
Resolves(name, scope) ==
    \/ name \in exec_globals(scope)
    \/ "__builtins__" \in exec_globals(scope) /\ name \in Builtins

_execute_code(code, price, cols, custom_periods) ==
    IF code.kind = "syntax_error"
    THEN [result |-> ExecutionError("SyntaxError"), cols |-> cols, price |-> price]
    ELSE IF code.kind = "imports" /\ ~Resolves("__import__", local_scope)
    THEN [result |-> ExecutionError("ImportError"), cols |-> cols, price |-> price]
    ELSE IF code.kind \in {"no_condition", "empty"}
    THEN [result |-> ErrorResult("Generated code did not define 'condition' function", ""),
          cols |-> cols, price |-> price]
    ELSE LET mask == filter_dates(price, code)
             data == condition_effect(price, code)
             periods == IF ~custom_periods.isNone /\ Len(custom_periods.list) > 0
                        THEN custom_periods.list ELSE default_periods
             results == analyze(data, cols, mask, periods)
             control_results == get_baseline_stats(data, cols, periods)
             sig == get_signals(data, cols, mask, periods)
         IN  IF results.raised
             THEN [result |-> ExecutionError(results.exc), cols |-> cols, price |-> data]
             ELSE IF control_results.raised
             THEN [result |-> ExecutionError(control_results.exc), cols |-> cols,
                   price |-> data]
             ELSE IF sig.raised
             THEN [result |-> ExecutionError("ValueError"), cols |-> sig.cols,
                   price |-> data]
             ELSE [result |-> [keys |-> {"results", "control", "signals", "generated_code"},
                               error |-> NoError,
                               results |-> results,
                               control |-> control_results,
                               signals |-> sig.rows,
                               generated_code |-> code],
                   cols |-> sig.cols, price |-> data]

\* What generate_backtest_condition returns: kind "dict" is a JSON object
\* (code "" when it has no usable code), "null" a falsy value, "nondict" a
\* truthy JSON value that is no object (a list, a string, a number).
GenDict(code, periods) == [kind |-> "dict", code |-> code, periods |-> periods]

GenFailed == GenDict(NoCode, NonePeriods)

GenNull == [kind |-> "null", code |-> NoCode, periods |-> NonePeriods]

GenNonDict == [kind |-> "nondict", code |-> NoCode, periods |-> NonePeriods]

\* `not llm_result or not isinstance(llm_result, dict) or not llm_result.get('code')`
\* of run_dynamic_scenario.
DynamicGenerationFailed(llm_result) ==
    llm_result.kind # "dict" \/ llm_result.code.kind = "empty"

run_dynamic_scenario(llm_result, price, cols) ==
    IF DynamicGenerationFailed(llm_result)
    THEN [result |-> ErrorResult("Failed to generate condition from query", ""),
          cols |-> cols, price |-> price]
    ELSE _execute_code(llm_result.code, price, cols, llm_result.periods)

\* ------------------------------------------- run_daily_insight_generation
VARIABLES
    price,                  \* bt.data['Adj Close']
    cols,                   \* bt.data's FwdReturn_<period> columns, by period
    pc,                     \* position in run_daily_insight_generation
    analysis,               \* what generate_daily_insights returned; its
                            \* questions are the q_obj's, updated in place
    q_idx,                  \* index of the q_obj being processed
    current_question_text,
    is_valid,
    attempts,
    llm_gen_result,         \* holds code and periods of the attempt
    test_result,
    failure_reason,
    validated_questions,    \* the q_obj's appended, as indices into analysis.questions
    returned,               \* what the function returned
    cache_file,             \* content of data/daily_analysis.json
    raised_by,              \* the call whose result made the function raise
    gen_calls,              \* generate_backtest_condition calls for this q_obj
    gen_request,            \* the question text of the latest of these calls
    repl_calls,             \* generate_replacement_question calls for it
    repl_request,           \* arguments of the latest replacement request
    last_failure,           \* how the latest failed attempt of it failed
    repl_since_failure,     \* replacement requests since that failure
    outcome,                \* per q_obj: "pending", "accepted", "discarded"
    dyn_call,               \* the latest request-handler call into _execute_code
    dyn_result,             \* and the dict it returned
    bt,                     \* services.bt: 0 for None, else the thread whose
                            \* Backtester(df) it holds (price and cols are its data)
    llm_service,            \* services.llm_service, likewise
    loads,                  \* how many times the data was loaded and a
                            \* Backtester constructed
    callers,                \* per thread: its position in get_backtester, the
                            \* frame it loaded and what the call returned
    sig_calls,              \* per thread: its position in bt.get_signals, the
                            \* arguments and the locals of the call
    bt_call,                \* the latest call of bt.analyze, bt.get_signals,
                            \* bt.get_baseline_stats, bt.expand_monthly_mask
                            \* or DataLoader.merge_data made as one step
    bt_result               \* and what it returned

vars == <<price, cols, pc, analysis, q_idx, current_question_text, is_valid,
          attempts, llm_gen_result, test_result, failure_reason,
          validated_questions, returned, cache_file, raised_by, gen_calls,
          gen_request, repl_calls, repl_request, last_failure, repl_since_failure,
          outcome, dyn_call, dyn_result, bt, llm_service, loads, callers,
          sig_calls, bt_call, bt_result>>

store == <<price, cols>>

boot_vars == <<bt, llm_service, loads, callers>>

call_vars == <<sig_calls, bt_call, bt_result>>

handler_vars ==
    <<pc, analysis, q_idx, current_question_text, is_valid, attempts,
      llm_gen_result, test_result, failure_reason, validated_questions, returned,
      cache_file, raised_by, gen_calls, gen_request, repl_calls, repl_request,
      last_failure, repl_since_failure, outcome, dyn_call, dyn_result>>

\* A question text: the text of hypothesis hyp after rev replacements.
Text(hyp, rev) == [hyp |-> hyp, rev |-> rev]

NoText == Text(0, 0)

NoReason == [kind |-> "", detail |-> NoError, periods |-> <<>>]

\* A q_obj as generate_daily_insights gives it; keys are the entries the
\* validation loop has added.
NewQuestion(i) ==
    [question |-> Text(i, 0), keys |-> {}, code |-> NoCode, periods |-> NonePeriods,
     results |-> NoResult, result_explanation |-> ""]

\* The while condition without `not is_valid`: an accepted hypothesis is
\* tried again.
WhileCondition_ignores_valid(valid, n) == n < max_attempts

\* The while condition with `<=` for `<`.
WhileCondition_inclusive(valid, n) == ~valid /\ n <= max_attempts

\* Line 322: the while condition.
WhileCondition(valid, n) == ~valid /\ n < max_attempts

\* Line 328: `not llm_gen_result or not llm_gen_result.get('code')`; a
\* truthy value that is no dict has no .get and raises AttributeError.
GenerationRaises(r) == r.kind = "nondict"

GenerationFailed(r) == r.kind = "null" \/ (r.kind = "dict" /\ r.code.kind = "empty")

\* Lines 351-354: the periods of the results dict marked "Data not available".
MissingPeriods(results) ==
    SelectSeq(results.keys, LAMBDA p : results.val[p].tag = "Data not available")

\* Classify without the check of the periods.
Classify_without_periods(r) ==
    IF "error" \in r.keys
    THEN [kind |-> "Code execution error", detail |-> r.error, periods |-> <<>>]
    ELSE IF r.results.count = 0
    THEN [kind |-> "Zero occurrences found in history", detail |-> NoError,
          periods |-> <<>>]
    ELSE NoReason

\* Classify with the count tested before the error.
Classify_count_first(r) ==
    IF r.results.count = 0
    THEN [kind |-> "Zero occurrences found in history", detail |-> NoError,
          periods |-> <<>>]
    ELSE IF "error" \in r.keys
    THEN [kind |-> "Code execution error", detail |-> r.error, periods |-> <<>>]
    ELSE IF Len(MissingPeriods(r.results)) > 0
    THEN [kind |-> "Data not available for periods", detail |-> NoError,
          periods |-> MissingPeriods(r.results)]
    ELSE NoReason

\* Lines 341-357: the failure reason of an executed attempt, NoReason when
\* the attempt is valid.
Classify(r) ==
    IF "error" \in r.keys
    THEN [kind |-> "Code execution error", detail |-> r.error, periods |-> <<>>]
    ELSE IF r.results.count = 0
    THEN [kind |-> "Zero occurrences found in history", detail |-> NoError,
          periods |-> <<>>]
    ELSE IF Len(MissingPeriods(r.results)) > 0
    THEN [kind |-> "Data not available for periods", detail |-> NoError,
          periods |-> MissingPeriods(r.results)]
    ELSE NoReason

\* The replacement test one attempt early.
AskReplacement_early_stop(n) == n < max_attempts - 1

\* The replacement requested after every failed attempt, the last included.
AskReplacement_always(n) == n <= max_attempts

\* Line 379: whether a replacement is requested after a failed attempt.
AskReplacement(n) == n < max_attempts

\* --------------------------------------------------------------- inputs
\* The price series the store is built from.
Rising == [i \in 1..NDays |-> i]

Falling == [i \in 1..NDays |-> NDays + 1 - i]

Flat == [i \in 1..NDays |-> 1]

\* Up on day 2, then level below it.
Mixed == [i \in 1..NDays |-> IF i = 1 THEN 1 ELSE IF i = 2 THEN 3 ELSE 2]

PriceSeries == {Rising, Falling, Flat, Mixed}

\* Signal masks: none, the first day, the last day, every day.
MaskDays == {{}, {1}, {NDays}, 1..NDays}

Programs ==
    {Program(k, {}) : k \in {"syntax_error", "no_condition", "raises", "columns", "invalid"}}
    \cup {Program("mask", d) : d \in MaskDays}
    \cup {Program("mutates", {1})}
    \cup {Program("imports", {1})}

\* Horizon lists: none given, canonical ones, one computed on demand ("1D"),
\* one with an unknown unit ("1Q"), one whose number is no integer ("xD").
PeriodChoices ==
    {NonePeriods,
     SomePeriods(<< <<"1", "W">> >>),
     SomePeriods(<< <<"3", "Y">> >>),
     SomePeriods(<< <<"1", "W">>, <<"3", "Y">> >>),
     SomePeriods(<< <<"1", "D">> >>),
     SomePeriods(<< <<"1", "Q">> >>),
     SomePeriods(<< <<"x", "D">> >>)}

\* What generate_backtest_condition may return to run_dynamic_scenario.
GenOutcomes ==
    {GenFailed, GenNull, GenNonDict}
    \cup {GenDict(c, p) : c \in Programs, p \in PeriodChoices}

\* What it may return in the validation loop: a part of GenOutcomes with a
\* predicate of each class of the loop (exec fails, the condition raises,
\* no day, a day with 1W data, a day without) and five horizon lists.
LoopPrograms ==
    {Program(k, {}) : k \in {"syntax_error", "raises"}}
    \cup {Program("mask", d) : d \in {{}, {1}, {NDays}}}

LoopPeriodChoices ==
    {NonePeriods,
     SomePeriods(<< <<"1", "W">> >>),
     SomePeriods(<< <<"3", "Y">> >>),
     SomePeriods(<< <<"1", "Q">> >>),
     SomePeriods(<< <<"x", "D">> >>)}

LoopGenOutcomes ==
    {GenFailed, GenNull, GenNonDict}
    \cup {GenDict(c, p) : c \in LoopPrograms, p \in LoopPeriodChoices}

\* What replaces a failed question: None (also any falsy value, and the
\* service's own error path), a dict without question text, a truthy value
\* that is no dict, or a dict with a new question text.
ReplacementOutcomes == {"none", "noquestion", "nondict", "question"}

\* Line 383: `replacement and replacement.get('question')`.
ReplacementRaises(r) == r = "nondict"

ReplacementUsable(r) == r = "question"

\* What generate_result_interpretation returns: a dict with the explanation
\* (the summarizer's text, or the service's own text when its call fails),
\* a dict without it, or a JSON value that is no dict.
InterpretationOutcomes ==
    {"The signal shows a strong short-term edge.", "nokey", "nondict"}

InterpretationRaises(r) == r = "nondict"

\* Line 369: .get('result_explanation', 'Results interpretation unavailable.')
ResultExplanation(r) ==
    IF r = "nokey" THEN "Results interpretation unavailable." ELSE r

NotReturned == [done |-> FALSE, error |-> FALSE, questions |-> <<>>]

NoCall == [fn |-> "", llm_result |-> GenNull]

\* ------------------------------------------------------------------ Init
Threads == 1..NThreads

NotCalled == [pc |-> "idle", df |-> <<>>, bt |-> 0, llm_service |-> 0]

\* A thread outside get_signals.
NoSignals ==
    [pc |-> "idle", days |-> {}, periods |-> <<>>, k |-> 0, ret |-> <<>>,
     subset |-> EmptyDict, writes |-> 0]

NoBtCall == [fn |-> "", days |-> {}, periods |-> <<>>]

NoBtResult == [analysis |-> NoAnalysis, raised |-> FALSE, rows |-> EmptyDict]

\* No handler has been called yet.
Idle ==
    /\ pc = "start"
    /\ analysis = [error |-> FALSE, questions |-> <<>>]
    /\ q_idx = 0
    /\ current_question_text = NoText
    /\ is_valid = FALSE
    /\ attempts = 0
    /\ llm_gen_result = GenNull
    /\ test_result = NoResult
    /\ failure_reason = NoReason
    /\ validated_questions = <<>>
    /\ returned = NotReturned
    /\ cache_file = NotReturned
    /\ raised_by = ""
    /\ gen_calls = 0
    /\ gen_request = NoText
    /\ repl_calls = 0
    /\ repl_request = [bad_question |-> NoText, reason |-> NoReason]
    /\ last_failure = NoReason
    /\ repl_since_failure = 0
    /\ outcome = <<>>
    /\ dyn_call = NoCall
    /\ dyn_result = NoResult
    /\ callers = [t \in Threads |-> NotCalled]
    /\ sig_calls = [t \in Threads |-> NoSignals]
    /\ bt_call = NoBtCall
    /\ bt_result = NoBtResult

\* The module's globals after a first get_backtester() that loaded the
\* price series p: Backtester.__init__ has copied it and added the columns.
Constructed(p) ==
    /\ price = p
    /\ cols = _precalculate_forward_returns(p)
    /\ bt = 1
    /\ llm_service = 1
    /\ loads = 1
    /\ Idle

Init == Constructed(Rising)

\* --------------------------------------------------------------- actions
\* Lines 316-320: the for loop moves to the q_obj at index j of qs, or past
\* the loop when there is none.  Locals that are dead there are reset;
\* attempts, which lines 318-320 reset for a next q_obj only, keeps past the
\* loop the value the last hypothesis left.
EnterQuestion(qs, j) ==
    /\ q_idx' = j
    /\ pc' = IF j <= Len(qs) THEN "while" ELSE "save"
    /\ current_question_text' = IF j <= Len(qs) THEN qs[j].question ELSE NoText
    /\ is_valid' = FALSE
    /\ attempts' = IF j <= Len(qs) THEN 0 ELSE attempts
    /\ llm_gen_result' = GenNull
    /\ test_result' = NoResult
    /\ failure_reason' = NoReason
    /\ gen_calls' = 0
    /\ gen_request' = NoText
    /\ repl_calls' = 0
    /\ repl_request' = [bad_question |-> NoText, reason |-> NoReason]
    /\ last_failure' = NoReason
    /\ repl_since_failure' = 0

Raise(call) ==
    /\ pc' = "raised"
    /\ raised_by' = call

\* Lines 307-316: the hypotheses are generated; a value that is no dict
\* has no .get, and a dict without 'questions' gives the empty list.
GenerateInsights ==
    /\ pc = "start"
    /\ \/ /\ Raise("generate_daily_insights")
          /\ UNCHANGED <<analysis, q_idx, current_question_text, is_valid, attempts,
                         llm_gen_result, test_result, failure_reason, gen_calls,
                         gen_request, repl_calls, repl_request, last_failure,
                         repl_since_failure, outcome>>
       \/ /\ \E a \in {[error |-> TRUE, questions |-> <<>>]}
                      \cup {[error |-> FALSE, questions |-> [i \in 1..k |-> NewQuestion(i)]] :
                              k \in 0..MaxQuestions} :
               /\ analysis' = a
               /\ outcome' = [i \in 1..Len(a.questions) |-> "pending"]
               /\ EnterQuestion(a.questions, 1)
          /\ UNCHANGED raised_by
    /\ UNCHANGED <<store, validated_questions, returned, cache_file, dyn_call, dyn_result>>
    /\ UNCHANGED <<boot_vars, call_vars>>

\* Lines 322-334: one pass of the while loop up to the generated code.
GenerateCondition ==
    /\ pc = "while"
    /\ WhileCondition(is_valid, attempts)
    /\ gen_calls' = gen_calls + 1
    /\ gen_request' = current_question_text
    /\ \E r \in LoopGenOutcomes :
         /\ llm_gen_result' = r
         /\ IF GenerationRaises(r)
            THEN /\ Raise("generate_backtest_condition")
                 /\ UNCHANGED <<attempts, last_failure, repl_since_failure>>
            ELSE IF GenerationFailed(r)
            THEN /\ attempts' = attempts + 1
                 /\ last_failure' = [NoReason EXCEPT !.kind = "Failed to generate code"]
                 /\ repl_since_failure' = 0
                 /\ pc' = "while"
                 /\ UNCHANGED raised_by
            ELSE /\ pc' = "execute"
                 /\ UNCHANGED <<attempts, last_failure, repl_since_failure, raised_by>>
    /\ test_result' = NoResult
    /\ UNCHANGED <<store, analysis, q_idx, current_question_text, is_valid,
                   failure_reason, validated_questions, returned, cache_file,
                   repl_calls, repl_request, outcome, dyn_call, dyn_result>>
    /\ UNCHANGED <<boot_vars, call_vars>>

\* AcceptedQuestion without line 361: the q_obj keeps the text it had.
AcceptedQuestion_keeps_text(q_obj, text, gen, result) ==
    [q_obj EXCEPT !.code = gen.code,
                  !.periods = gen.periods,
                  !.results = result,
                  !.keys = @ \cup {"code", "periods", "results"}]

\* Lines 361-364: the q_obj of an attempt that passed.
AcceptedQuestion(q_obj, text, gen, result) ==
    [q_obj EXCEPT !.question = text,
                  !.code = gen.code,
                  !.periods = gen.periods,
                  !.results = result,
                  !.keys = @ \cup {"code", "periods", "results"}]

\* Lines 338-379: the code is executed and the attempt classified.
ExecuteAndClassify ==
    /\ pc = "execute"
    /\ \E ex \in {_execute_code(llm_gen_result.code, price, cols, llm_gen_result.periods)} :
       LET reason == Classify(ex.result)
       IN  /\ cols' = ex.cols
           /\ price' = ex.price
           /\ test_result' = ex.result
           /\ IF reason = NoReason
              THEN /\ analysis' = [analysis EXCEPT !.questions[q_idx] =
                                      AcceptedQuestion(@, current_question_text,
                                                       llm_gen_result, ex.result)]
                   /\ pc' = "interpret"
                   /\ UNCHANGED <<failure_reason, attempts, last_failure,
                                  repl_since_failure>>
              ELSE /\ failure_reason' = reason
                   /\ attempts' = attempts + 1
                   /\ last_failure' = reason
                   /\ repl_since_failure' = 0
                   /\ pc' = IF AskReplacement(attempts + 1) THEN "replace" ELSE "while"
                   /\ UNCHANGED analysis
    /\ UNCHANGED <<q_idx, current_question_text, is_valid, llm_gen_result,
                   validated_questions, returned, cache_file, raised_by, gen_calls,
                   gen_request, repl_calls, repl_request, outcome, dyn_call, dyn_result>>
    /\ UNCHANGED <<boot_vars, call_vars>>

\* Lines 368-373: the interpretation is requested and the q_obj appended.
Interpret ==
    /\ pc = "interpret"
    /\ \E r \in InterpretationOutcomes :
         IF InterpretationRaises(r)
         THEN /\ Raise("generate_result_interpretation")
              /\ UNCHANGED <<analysis, validated_questions, is_valid, outcome>>
         ELSE /\ analysis' = [analysis EXCEPT
                                 !.questions[q_idx].result_explanation = ResultExplanation(r),
                                 !.questions[q_idx].keys = @ \cup {"result_explanation"}]
              /\ validated_questions' = Append(validated_questions, q_idx)
              /\ is_valid' = TRUE
              /\ outcome' = [outcome EXCEPT ![q_idx] = "accepted"]
              /\ pc' = "while"
              /\ UNCHANGED raised_by
    /\ UNCHANGED <<store, q_idx, current_question_text, attempts, llm_gen_result,
                   test_result, failure_reason, returned, cache_file, gen_calls,
                   gen_request, repl_calls, repl_request, last_failure,
                   repl_since_failure, dyn_call, dyn_result>>
    /\ UNCHANGED <<boot_vars, call_vars>>

\* Lines 382-392: a replacement is requested for the failed question.  The
\* q_obj's predictive_score and insight_explanation, which a usable
\* replacement may overwrite, are not part of the modelled q_obj.  Without
\* a usable replacement the while loop is left (`break`) and the for loop
\* goes on, which resets the locals of the hypothesis.
RequestReplacement ==
    /\ pc = "replace"
    /\ \E r \in ReplacementOutcomes :
         /\ IF ReplacementRaises(r)
            THEN /\ Raise("generate_replacement_question")
                 /\ repl_request' = [bad_question |-> current_question_text,
                                     reason |-> failure_reason]
                 /\ repl_calls' = repl_calls + 1
                 /\ repl_since_failure' = repl_since_failure + 1
                 /\ UNCHANGED <<q_idx, current_question_text, is_valid, attempts,
                                llm_gen_result, test_result, failure_reason,
                                last_failure, outcome, gen_calls, gen_request>>
            ELSE IF ReplacementUsable(r)
            THEN /\ current_question_text' =
                        Text(q_idx, current_question_text.rev + 1)
                 /\ repl_request' = [bad_question |-> current_question_text,
                                     reason |-> failure_reason]
                 /\ repl_calls' = repl_calls + 1
                 /\ repl_since_failure' = repl_since_failure + 1
                 /\ pc' = "while"
                 /\ llm_gen_result' = GenNull
                 /\ gen_request' = NoText
                 /\ test_result' = NoResult
                 /\ UNCHANGED <<q_idx, is_valid, attempts, failure_reason,
                                last_failure, raised_by, outcome, gen_calls>>
            ELSE /\ outcome' = [outcome EXCEPT ![q_idx] = "discarded"]
                 /\ EnterQuestion(analysis.questions, q_idx + 1)
                 /\ UNCHANGED raised_by
    /\ UNCHANGED <<store, analysis, validated_questions, returned, cache_file,
                   dyn_call, dyn_result>>
    /\ UNCHANGED <<boot_vars, call_vars>>

\* Line 322, condition false: the while loop ends and the for loop goes on.
ExitLoop ==
    /\ pc = "while"
    /\ ~WhileCondition(is_valid, attempts)
    /\ outcome' = [outcome EXCEPT ![q_idx] = IF is_valid THEN "accepted" ELSE "discarded"]
    /\ EnterQuestion(analysis.questions, q_idx + 1)
    /\ UNCHANGED <<store, analysis, validated_questions, returned, cache_file,
                   raised_by, dyn_call, dyn_result>>
    /\ UNCHANGED <<boot_vars, call_vars>>

\* Lines 395-406: the validated q_obj's replace the question list, the
\* cache file is written (a failed write is caught) and the dict returned.
SaveAndReturn ==
    /\ pc = "save"
    /\ LET result == [done |-> TRUE, error |-> analysis.error,
                      questions |-> [k \in 1..Len(validated_questions) |->
                                        analysis.questions[validated_questions[k]]]]
       IN  /\ returned' = result
           /\ \/ cache_file' = result
              \/ UNCHANGED cache_file
    /\ pc' = "done"
    /\ UNCHANGED <<store, analysis, q_idx, current_question_text, is_valid, attempts,
                   llm_gen_result, test_result, failure_reason, validated_questions,
                   raised_by, gen_calls, gen_request, repl_calls, repl_request,
                   last_failure, repl_since_failure, outcome, dyn_call, dyn_result>>
    /\ UNCHANGED <<boot_vars, call_vars>>

Next ==
    \/ GenerateInsights
    \/ GenerateCondition
    \/ ExecuteAndClassify
    \/ Interpret
    \/ RequestReplacement
    \/ ExitLoop
    \/ SaveAndReturn

Spec == Init /\ [][Next]_vars

\* ------------------------------------------------- the request handlers
loop_vars == <<pc, analysis, q_idx, current_question_text, is_valid, attempts,
               llm_gen_result, test_result, failure_reason, validated_questions,
               returned, cache_file, raised_by, gen_calls, gen_request, repl_calls,
               repl_request, last_failure, repl_since_failure, outcome>>

\* run_dynamic_scenario(query), the generator answering llm_result.
RunDynamicScenario ==
    \E llm_result \in GenOutcomes :
        \E r \in {run_dynamic_scenario(llm_result, price, cols)} :
            /\ dyn_call' = [fn |-> "run_dynamic_scenario", llm_result |-> llm_result]
            /\ dyn_result' = r.result
            /\ cols' = r.cols
            /\ price' = r.price
            /\ UNCHANGED <<loop_vars, boot_vars, call_vars>>

\* run_saved_query(query_id) for a saved query holding code (lines 287-295);
\* an unknown id is the "Query not found" error.
RunSavedQuery ==
    /\ \/ \E code \in Programs :
            \E r \in {_execute_code(code, price, cols, NonePeriods)} :
                /\ dyn_call' = [fn |-> "run_saved_query",
                                llm_result |-> GenDict(code, NonePeriods)]
                /\ dyn_result' = r.result
                /\ cols' = r.cols
                /\ price' = r.price
       \/ /\ dyn_call' = [fn |-> "run_saved_query", llm_result |-> GenNull]
          /\ dyn_result' = ErrorResult("Query not found", "")
          /\ UNCHANGED store
    /\ UNCHANGED loop_vars
    /\ UNCHANGED <<boot_vars, call_vars>>

InitDyn == \E p \in PriceSeries : Constructed(p)

NextDyn == RunDynamicScenario \/ RunSavedQuery

SpecDyn == InitDyn /\ [][NextDyn]_vars

\* ---------------------------------------------------------- get_backtester
\* get_backtester() in thread t, one step per access to the globals; nothing
\* in it holds a lock.
Caller(t, at) == callers[t].pc = at

Goto(t, at) == [callers EXCEPT ![t].pc = at]

\* Line 21: `if bt is None`.
CheckBacktester(t) ==
    /\ Caller(t, "idle")
    /\ callers' = Goto(t, IF bt = 0 THEN "load" ELSE "check_llm")
    /\ UNCHANGED <<store, bt, llm_service, loads>>
    /\ UNCHANGED <<handler_vars, call_vars>>

\* Lines 22-28: the history is fetched and merged into df.
LoadData(t) ==
    /\ Caller(t, "load")
    /\ \E df \in PriceSeries :
          callers' = [callers EXCEPT ![t].pc = "construct", ![t].df = df]
    /\ UNCHANGED <<store, bt, llm_service, loads>>
    /\ UNCHANGED <<handler_vars, call_vars>>

\* Line 29: bt = Backtester(df).
ConstructBacktester(t) ==
    /\ Caller(t, "construct")
    /\ price' = callers[t].df
    /\ cols' = _precalculate_forward_returns(callers[t].df)
    /\ bt' = t
    /\ loads' = loads + 1
    /\ callers' = Goto(t, "check_llm")
    /\ UNCHANGED llm_service
    /\ UNCHANGED <<handler_vars, call_vars>>

\* Lines 31-32: `if llm_service is None: llm_service = LLMService()`.
CheckLLMService(t) ==
    /\ Caller(t, "check_llm")
    /\ callers' = Goto(t, IF llm_service = 0 THEN "create_llm" ELSE "return")
    /\ UNCHANGED <<store, bt, llm_service, loads>>
    /\ UNCHANGED <<handler_vars, call_vars>>

CreateLLMService(t) ==
    /\ Caller(t, "create_llm")
    /\ llm_service' = t
    /\ callers' = Goto(t, "return")
    /\ UNCHANGED <<store, bt, loads>>
    /\ UNCHANGED <<handler_vars, call_vars>>

\* Line 34: return bt, llm_service.
ReturnBacktester(t) ==
    /\ Caller(t, "return")
    /\ callers' = [callers EXCEPT ![t].pc = "done", ![t].bt = bt,
                                  ![t].llm_service = llm_service]
    /\ UNCHANGED <<store, bt, llm_service, loads>>
    /\ UNCHANGED <<handler_vars, call_vars>>

\* The process before any call of get_backtester (lines 10-15).
InitBoot ==
    /\ price = <<>>
    /\ cols = EmptyDict
    /\ bt = 0
    /\ llm_service = 0
    /\ loads = 0
    /\ Idle

NextBoot ==
    \/ \E t \in Threads : CheckBacktester(t)
    \/ \E t \in Threads : LoadData(t)
    \/ \E t \in Threads : ConstructBacktester(t)
    \/ \E t \in Threads : CheckLLMService(t)
    \/ \E t \in Threads : CreateLLMService(t)
    \/ \E t \in Threads : ReturnBacktester(t)

SpecBoot == InitBoot /\ [][NextBoot]_vars

\* ------------------------------------------- concurrent calls on the store
\* Horizons without a precomputed column, and one with.
P1D == <<"1", "D">>

P2D == <<"2", "D">>

P1W == <<"1", "W">>

MemoPeriodLists == {<<P1D>>, <<P1D, P1W>>}

\* The mask of the get_signals calls, and the masks of the analyze calls.
SignalDays == 1..NDays

MemoMasks == {{1}, 1..NDays}

\* bt.get_signals(mask, periods) in thread t, one step per access to
\* self.data; an assignment of a column is one step.
\* Line 140: subset = self.data[condition_mask].copy().
EnterGetSignals(t) ==
    /\ sig_calls[t].pc = "idle"
    /\ \E periods \in MemoPeriodLists :
          sig_calls' = [sig_calls EXCEPT ![t] =
                           [NoSignals EXCEPT !.pc = "check", !.days = SignalDays,
                                             !.periods = periods, !.k = 1]]
    /\ UNCHANGED <<store, bt_call, bt_result>>
    /\ UNCHANGED <<handler_vars, boot_vars>>

\* Lines 152-156: the loop test, `col_name not in self.data.columns`, and
\* parse_period.  Past the last period the call returns subset (line 165)
\* and the thread is outside get_signals again.
SignalsCheck(t) ==
    LET c == sig_calls[t]
    IN  /\ c.pc = "check"
        /\ sig_calls' = [sig_calls EXCEPT ![t] =
               IF c.k > Len(c.periods) THEN NoSignals
               ELSE IF c.periods[c.k] \in DOMAIN cols THEN [c EXCEPT !.pc = "join"]
               ELSE IF ~parse_period(c.periods[c.k]).ok THEN [c EXCEPT !.pc = "raised"]
               ELSE IF Truthy(parse_period(c.periods[c.k])) THEN [c EXCEPT !.pc = "write"]
               ELSE [c EXCEPT !.pc = "join"]]
        /\ UNCHANGED <<store, bt_call, bt_result>>
        /\ UNCHANGED <<handler_vars, boot_vars>>

\* Line 157: the column is computed from the prices and assigned.
SignalsWrite(t) ==
    LET c == sig_calls[t]
        p == c.periods[c.k]
    IN  /\ c.pc = "write"
        /\ cols' = (p :> memoize_column(price, parse_period(p).v)) @@ cols
        /\ sig_calls' = [sig_calls EXCEPT ![t].pc = "join", ![t].writes = @ + 1]
        /\ UNCHANGED <<price, bt_call, bt_result>>
        /\ UNCHANGED <<handler_vars, boot_vars>>

\* Lines 159-163: the column's values on the subset are copied.
SignalsJoin(t) ==
    LET c == sig_calls[t]
        p == c.periods[c.k]
    IN  /\ c.pc = "join"
        /\ sig_calls' = [sig_calls EXCEPT ![t] =
               IF p \in DOMAIN cols
               THEN [c EXCEPT !.pc = "check", !.k = c.k + 1,
                              !.ret = Append(c.ret, p),
                              !.subset = (p :> [i \in c.days |-> cols[p][i]]) @@ c.subset]
               ELSE [c EXCEPT !.pc = "check", !.k = c.k + 1]]
        /\ UNCHANGED <<store, bt_call, bt_result>>
        /\ UNCHANGED <<handler_vars, boot_vars>>

\* bt.analyze(mask, periods): it writes nothing, and a column it finds at
\* line 65 is never removed, so that its reads are one step.
CallAnalyze(days, periods) ==
    /\ bt_call' = [fn |-> "analyze", days |-> days, periods |-> periods]
    /\ \E r \in {analyze(price, cols, BoolMask(price, days), periods)} :
          bt_result' = [NoBtResult EXCEPT !.analysis = r, !.raised = r.raised]
    /\ UNCHANGED <<store, sig_calls>>
    /\ UNCHANGED <<handler_vars, boot_vars>>

\* bt.get_signals(mask, periods) made by one thread alone.
CallGetSignals(days, periods) ==
    \E r \in {get_signals(price, cols, BoolMask(price, days), periods)} :
        /\ bt_call' = [fn |-> "get_signals", days |-> days, periods |-> periods]
        /\ bt_result' = [NoBtResult EXCEPT !.raised = r.raised, !.rows = r.rows]
        /\ cols' = r.cols
        /\ UNCHANGED <<price, sig_calls, handler_vars, boot_vars>>

\* bt.get_baseline_stats(periods).
CallBaselineStats(periods) ==
    /\ bt_call' = [fn |-> "get_baseline_stats", days |-> 1..Len(price),
                   periods |-> periods]
    /\ \E r \in {get_baseline_stats(price, cols, periods)} :
          bt_result' = [NoBtResult EXCEPT !.analysis = r, !.raised = r.raised]
    /\ UNCHANGED <<store, sig_calls>>
    /\ UNCHANGED <<handler_vars, boot_vars>>

NextMemo ==
    \/ \E t \in Threads : EnterGetSignals(t)
    \/ \E t \in Threads : SignalsCheck(t)
    \/ \E t \in Threads : SignalsWrite(t)
    \/ \E t \in Threads : SignalsJoin(t)
    \/ \E days \in MemoMasks, periods \in MemoPeriodLists : CallAnalyze(days, periods)

SpecMemo == InitDyn /\ [][NextMemo]_vars

\* ----------------------------------------------- single calls on the store
\* Days at both ends of the history: with and without a "1W" return.
SampleDays == {1, 2, NDays - 1, NDays}

\* Masks of at most MaxMaskDays sampled days, and the all-True mask.
StoreMasks ==
    {d \in SUBSET SampleDays : Cardinality(d) <= MaxMaskDays} \cup {1..NDays}

\* Horizon lists: precomputed ones, one computed on demand, an unknown unit
\* ("1Q"), a zero ("0D"), numbers that are no integer ("xD", "D").
StorePeriodLists ==
    {<<P1W>>, <<P1D>>, <<P1W, <<"3", "Y">> >>, <<P1W, <<"1", "Q">> >>,
     <<P1W, <<"0", "D">> >>, <<P1W, <<"x", "D">> >>, << <<"D">> >>,
     default_periods}

NextStore ==
    \/ \E days \in StoreMasks, periods \in StorePeriodLists :
          CallAnalyze(days, periods)
    \/ \E days \in {{1}, 1..NDays}, periods \in StorePeriodLists :
          CallGetSignals(days, periods)
    \/ \E periods \in StorePeriodLists : CallBaselineStats(periods)

SpecStore == InitDyn /\ [][NextStore]_vars

\* ------------------------------------------------ analyses of a long store
\* Price series of LongDays days: level, the last day at twice or at zero.
LastDayDoubles == [i \in 1..LongDays |-> IF i = LongDays THEN 2 ELSE 1]

LastDayZero == [i \in 1..LongDays |-> IF i = LongDays THEN 0 ELSE 1]

LongSeries == {LastDayDoubles, LastDayZero}

P1Y == <<"1", "Y">>

P3Y == <<"3", "Y">>

P5Y == <<"5", "Y">>

P10Y == <<"1", "0", "Y">>

\* Horizons of 756 days that are not named "3Y".
P756D == <<"7", "5", "6", "D">>

P36M == <<"3", "6", "M">>

LongPeriodLists ==
    {<<P3Y>>, <<P5Y>>, <<P10Y>>, <<P1Y, P3Y, P10Y>>, <<P3Y, P5Y, P10Y>>,
     <<P756D>>, <<P36M>>}

\* Masks of the first days and of the days 3, 5 and 10 years before the last.
LongMasks ==
    {{1}, {1, 2}, {LongDays}, {LongDays - 756}, {LongDays - 757, LongDays - 756},
     {1, LongDays - 756}, {LongDays - 1260}, {2, LongDays - 1260}}

InitLong == \E p \in LongSeries : Constructed(p)

\* One analysis of the long store: analyze leaves the store as it is, so
\* that a second call returns what a first call does.
NextLong ==
    /\ bt_call = NoBtCall
    /\ \E days \in LongMasks, periods \in LongPeriodLists : CallAnalyze(days, periods)

SpecLong == InitLong /\ [][NextLong]_vars

\* ------------------------------------- the validation loop on a long store
\* run_daily_insight_generation on the long store, from the point where
\* generate_daily_insights has returned one hypothesis and the for loop has
\* entered it (GenerateInsights with one question): on this store a day has
\* a forward return at every canonical horizon.
InitLoopLong ==
    /\ price = LastDayDoubles
    /\ cols = _precalculate_forward_returns(LastDayDoubles)
    /\ bt = 1
    /\ llm_service = 1
    /\ loads = 1
    /\ pc = "while"
    /\ analysis = [error |-> FALSE, questions |-> <<NewQuestion(1)>>]
    /\ outcome = <<"pending">>
    /\ q_idx = 1
    /\ current_question_text = NewQuestion(1).question
    /\ is_valid = FALSE
    /\ attempts = 0
    /\ llm_gen_result = GenNull
    /\ test_result = NoResult
    /\ failure_reason = NoReason
    /\ validated_questions = <<>>
    /\ returned = NotReturned
    /\ cache_file = NotReturned
    /\ raised_by = ""
    /\ gen_calls = 0
    /\ gen_request = NoText
    /\ repl_calls = 0
    /\ repl_request = [bad_question |-> NoText, reason |-> NoReason]
    /\ last_failure = NoReason
    /\ repl_since_failure = 0
    /\ dyn_call = NoCall
    /\ dyn_result = NoResult
    /\ callers = [t \in Threads |-> NotCalled]
    /\ sig_calls = [t \in Threads |-> NoSignals]
    /\ bt_call = NoBtCall
    /\ bt_result = NoBtResult

\* The run up to its first replacement request: the passes of the while
\* loop that need none, the end of the loop and the return.
NextLoopLong ==
    \/ GenerateCondition
    \/ ExecuteAndClassify
    \/ Interpret
    \/ ExitLoop
    \/ SaveAndReturn

SpecLoopLong == InitLoopLong /\ [][NextLoopLong]_vars

\* --------------------------------------------- helpers that hold no state
\* Longest daily index and longest coarse mask given to expand_monthly_mask.
MaxDaily == 2

MaxMonthly == 2

\* Sequences over S of length at most n.
SeqUpTo(S, n) == UNION {[1..k -> S] : k \in 0..n}

\* Timestamps are [y, m, d].  to_period('M') with the month number alone.
to_period_month_number(ts) == <<0, ts.m>>

\* Timestamp.to_period('M'): the year and the month.
to_period(ts) == <<ts.y, ts.m>>

\* daily_periods.map(period_mask) at one period: the value of the entry the
\* coarse mask holds for it, NaN when it holds none.
MapPeriod(period_mask, per) ==
    LET hits == {k \in 1..Len(period_mask) : period_mask[k].period = per}
    IN  IF hits = {} THEN "NaN" ELSE period_mask[CHOOSE k \in hits : TRUE].v

\* fillna(False) and astype(bool) of one value of the mapped series.
fillna(v, fill) == IF v = "NaN" THEN fill ELSE v

astype_bool(v) == v = "True"

\* Backtester.expand_monthly_mask: the series it returns, as its index and
\* its values.
expand_monthly_mask(monthly_mask, daily_index) ==
    LET period_mask == [k \in 1..Len(monthly_mask) |->
                          [period |-> to_period(monthly_mask[k].ts),
                           v |-> monthly_mask[k].v]]
        daily_periods == [i \in 1..Len(daily_index) |-> to_period(daily_index[i])]
        daily_result == [i \in 1..Len(daily_index) |->
                            MapPeriod(period_mask, daily_periods[i])]
    IN  [index |-> daily_index,
         values |-> [i \in 1..Len(daily_index) |->
                        astype_bool(fillna(daily_result[i], "False"))]]

\* Trading days of two months of one year and of the same months of the next.
DailyDates ==
    {[y |-> 2022, m |-> 1, d |-> 3], [y |-> 2022, m |-> 1, d |-> 31],
     [y |-> 2022, m |-> 2, d |-> 1], [y |-> 2023, m |-> 1, d |-> 3],
     [y |-> 2023, m |-> 2, d |-> 1]}

\* Month ends, as resample('M') labels the months.
MonthEnds ==
    {[y |-> 2022, m |-> 1, d |-> 31], [y |-> 2022, m |-> 2, d |-> 28],
     [y |-> 2023, m |-> 1, d |-> 31]}

\* Coarse masks: one entry a month at most, true, false or null (the first
\* entry of a shift(1) is null).
MonthlyMasks ==
    {mm \in SeqUpTo([ts : MonthEnds, v : {"True", "False", "NaN"}], MaxMonthly) :
        \A j, k \in 1..Len(mm) : to_period(mm[j].ts) = to_period(mm[k].ts) => j = k}

\* Daily indexes, in any order.
DailyIndexes == SeqUpTo(DailyDates, MaxDaily)

\* Backtester.expand_monthly_mask(monthly_mask, daily_index).
CallExpandMonthlyMask(monthly_mask, daily_index) ==
    /\ bt_call' = [fn |-> "expand_monthly_mask", monthly_mask |-> monthly_mask,
                   daily_index |-> daily_index]
    /\ bt_result' = [raised |-> FALSE,
                     series |-> expand_monthly_mask(monthly_mask, daily_index)]
    /\ UNCHANGED <<store, sig_calls>>
    /\ UNCHANGED <<handler_vars, boot_vars>>

\* One call of expand_monthly_mask: it is a staticmethod that reads its
\* arguments alone, so that a second call returns what a first call does.
ExpandOnce ==
    /\ bt_call = NoBtCall
    /\ \E mm \in MonthlyMasks, di \in DailyIndexes : CallExpandMonthlyMask(mm, di)

\* Dates are day numbers 1..MaxDate; a valuation frame has MaxPE records at
\* most.
MaxDate == 4

MaxPE == 2

\* A P/E value: null stands for a missing PE10.
PENull == [null |-> TRUE, v |-> 0]

PEVal(v) == [null |-> FALSE, v |-> v]

\* load_pe_data found no file.
NoPE == [isNone |-> TRUE, rows |-> <<>>]

\* reindex(index, method='bfill'): the earliest record on or after the day.
reindex_bfill(rows, index) ==
    [i \in 1..Len(index) |->
        LET after == {k \in 1..Len(rows) : rows[k].date >= index[i]}
        IN  IF after = {} THEN PENull ELSE rows[Min(after)].pe]

\* pe_df.reindex(index, method='ffill') on the sorted pe_df: the row at the
\* last position whose date is on or before the day, null before the first.
reindex_ffill(rows, index) ==
    [i \in 1..Len(index) |->
        LET before == {k \in 1..Len(rows) : rows[k].date <= index[i]}
        IN  IF before = {} THEN PENull ELSE rows[Max(before)].pe]

\* DataLoader.merge_data: a frame is its index, its column labels and its
\* columns ('Adj Close', and 'PE' when it has one).
merge_data(price_df, pe_df) ==
    IF pe_df.isNone THEN price_df
    ELSE [price_df EXCEPT !.columns = @ \cup {"PE"},
                          !.PE = reindex_ffill(pe_df.rows, price_df.index)]

\* Price frames: trading days in increasing order, each with a price.
PriceFrames ==
    {[index |-> idx, columns |-> {"Adj Close"},
      adj |-> [i \in 1..Len(idx) |-> 100 + idx[i]],
      PE |-> <<>>] :
        idx \in {s \in SeqUpTo(1..MaxDate, MaxDate) :
                    Len(s) > 0 /\ \A i \in 1..(Len(s) - 1) : s[i] < s[i + 1]}}

\* What load_pe_data returns: None, or the records sorted by date, one a
\* date (lines 86-87), each with a ratio or a null.
PEFrames ==
    {NoPE} \cup
    {[isNone |-> FALSE, rows |-> rows] :
        rows \in {s \in SeqUpTo([date : 1..MaxDate, pe : {PEVal(15), PEVal(30), PENull}], MaxPE) :
                     \A i \in 1..(Len(s) - 1) : s[i].date < s[i + 1].date}}

\* DataLoader.merge_data(price_df, pe_df).
CallMergeData(price_df, pe_df) ==
    /\ bt_call' = [fn |-> "merge_data", price_df |-> price_df, pe_df |-> pe_df]
    /\ bt_result' = [raised |-> FALSE, frame |-> merge_data(price_df, pe_df)]
    /\ UNCHANGED <<store, sig_calls>>
    /\ UNCHANGED <<handler_vars, boot_vars>>

\* One call of merge_data: it reads its arguments alone.
MergeOnce ==
    /\ bt_call = NoBtCall
    /\ \E pf \in PriceFrames, pe \in PEFrames : CallMergeData(pf, pe)

NextHelpers ==
    \/ ExpandOnce
    \/ MergeOnce

SpecHelpers == Init /\ [][NextHelpers]_vars

\* ----------------------------------------------------------------- claims
DataNotAvailable == "Data not available"

\* The attempt in progress has been executed: test_result is its result and
\* llm_gen_result its code and periods.
Executed == test_result # NoResult

\* The horizon list _execute_code resolves for an accepted q_obj.
RequestedPeriods(q) ==
    IF ~q.periods.isNone /\ Len(q.periods.list) > 0 THEN q.periods.list
    ELSE default_periods

\* C1: the attempt counter never exceeds 3, the predicate generator is
\* called at most 3 times and a replacement requested at most 2 times per
\* hypothesis, and a hypothesis whose third attempt failed is not in the
\* accepted list, neither while it is processed nor in what is returned.
C1_AttemptsBounded ==
    /\ attempts <= 3
    /\ gen_calls <= 3
    /\ repl_calls <= 2
    /\ attempts = 3 => ~InRange(validated_questions, q_idx)
    /\ \A i \in DOMAIN outcome :
         outcome[i] = "discarded" => ~InRange(validated_questions, i)
    /\ returned.done =>
         \A k \in 1..Len(returned.questions) :
            outcome[returned.questions[k].question.hyp] = "accepted"

\* A third attempt has failed after three generator calls and two
\* replacement requests.
C1_Witness ==
    pc = "while" /\ attempts = 3 /\ gen_calls = 3 /\ repl_calls = 2 /\ ~is_valid

\* C2: every accepted q_obj carries the result of an execution without
\* error, with a positive count, in which no requested horizon is marked
\* "Data not available"; for a horizon with a store column the predicate's
\* days do hold a forward return.
C2_AcceptedHasData ==
    \A k \in 1..Len(validated_questions) :
        LET q == analysis.questions[validated_questions[k]]
            r == q.results
        IN  /\ "error" \notin r.keys
            /\ r.results.count > 0
            /\ q.code.kind = "mask" => r.results.count = Cardinality(q.code.days)
            /\ \A j \in 1..Len(RequestedPeriods(q)) :
                 LET p == RequestedPeriods(q)[j]
                 IN  /\ p \in DOMAIN r.results.val
                     /\ r.results.val[p].tag # DataNotAvailable
                     /\ (p \in DOMAIN cols /\ q.code.kind = "mask") =>
                           \E i \in q.code.days : ~cols[p][i].nan

\* A hypothesis has been accepted.
C2_Witness ==
    /\ Len(validated_questions) > 0
    /\ analysis.questions[validated_questions[1]].results.results.count > 0

\* C3: a predicate whose condition raises is classified as an execution
\* error (stated for the attempt that has just failed).
C3_RaisingPredicateIsExecutionError ==
    (Executed /\ llm_gen_result.code.kind = "raises")
        => failure_reason.kind = "Code execution error"

GenerationFailure == "Failed to generate code"

\* C4 as amended: an attempt that fails in execution, by zero occurrences or
\* by missing data increments the counter and, with fewer than 3 attempts
\* then used, is followed by exactly one replacement request that carries
\* the failed question and its failure reason, before the next predicate
\* generation; an attempt that fails in generation increments the counter,
\* requests no replacement and keeps the question text.
C4_Step ==
    /\ (pc = "execute" /\ pc' # "interpret") =>
          /\ attempts' = attempts + 1
          /\ failure_reason'.kind # ""
          /\ attempts' < 3 => pc' = "replace"
    /\ pc = "replace" =>
          /\ repl_since_failure = 0
          /\ failure_reason = last_failure
          /\ q_idx' = q_idx =>
                /\ repl_calls' = repl_calls + 1
                /\ repl_request' = [bad_question |-> current_question_text,
                                    reason |-> failure_reason]
    /\ gen_calls' = gen_calls + 1 =>
          \/ attempts = 0
          \/ last_failure.kind = GenerationFailure /\ repl_since_failure = 0
          \/ /\ last_failure.kind # GenerationFailure
             /\ repl_since_failure = 1
             /\ repl_request.reason = last_failure
    /\ (pc = "while" /\ pc' = "while" /\ gen_calls' = gen_calls + 1) =>
          /\ attempts' = attempts + 1
          /\ repl_calls' = repl_calls
          /\ current_question_text' = current_question_text

C5_OrderedClassification ==
    /\ (llm_gen_result.kind # "dict" \/ llm_gen_result.code.kind = "empty")
          => ~Executed
    /\ Executed =>
         LET res == test_result.results
             missing == {p \in DOMAIN res.val : res.val[p].tag = DataNotAvailable}
         IN  IF "error" \in test_result.keys
             THEN /\ failure_reason.kind = "Code execution error"
                  /\ failure_reason.detail = test_result.error
             ELSE IF res.count = 0
             THEN failure_reason.kind = "Zero occurrences found in history"
             ELSE IF missing # {}
             THEN /\ failure_reason.kind = "Data not available for periods"
                  /\ {failure_reason.periods[k] : k \in 1..Len(failure_reason.periods)}
                        = missing
                  /\ Len(failure_reason.periods) = Cardinality(missing)
             ELSE pc \in {"interpret", "raised"} \/ is_valid

\* An attempt with a positive count has failed for seven of the eight
\* default horizons, the eighth ("1W") having data.
C5_Witness ==
    /\ Executed /\ pc = "replace"
    /\ failure_reason.kind = "Data not available for periods"
    /\ Len(failure_reason.periods) = 7
    /\ test_result.results.val[<<"1", "W">>].tag = "stats"

Requests3Y ==
    /\ Executed
    /\ InRange(llm_gen_result.periods.list, P3Y)
    /\ \A i \in 1..Len(price) : cols[P3Y][i].nan

RejectedFor3Y ==
    /\ failure_reason.kind = "Data not available for periods"
    /\ InRange(failure_reason.periods, P3Y)
    /\ pc # "interpret"
    /\ ~is_valid

\* C6 as claimed: a predicate requesting "3Y" on a store too recent for any
\* 3-year forward return is rejected for missing data of 3Y.
C6_3YAlwaysDataNotAvailable == Requests3Y => RejectedFor3Y

\* C6 as amended: so it is when its execution reports no error and it
\* matches at least one day.
C6_3YDataNotAvailableWhenMatched ==
    (Requests3Y /\ "error" \notin test_result.keys /\ test_result.results.count > 0)
        => RejectedFor3Y

C6_Witness ==
    /\ Requests3Y /\ test_result.results.count > 0 /\ RejectedFor3Y
    /\ failure_reason.periods = <<P3Y>>

FaultKinds == {"syntax_error", "no_condition", "raises", "columns", "invalid"}

\* C7: _execute_code returns a dict with "error" and no analysis for source
\* with a syntax error, without `condition`, whose condition raises, or
\* whose condition returns no boolean mask.
C7_FaultIsTypedFailure ==
    (dyn_call.fn # "" /\ dyn_call.llm_result.kind = "dict"
                      /\ dyn_call.llm_result.code.kind \in FaultKinds)
        => dyn_result.keys = {"error"}

\* C8: for generated source that is a valid predicate, run_dynamic_scenario
\* returns the analysis, the baseline over the same horizons, the signal
\* rows and the source, and no "error"; no result holds both.
C8_ValidSourceIsAnalysed ==
    /\ (dyn_call.fn = "run_dynamic_scenario" /\ dyn_call.llm_result.kind = "dict"
                                             /\ dyn_call.llm_result.code.kind = "mask")
          => /\ dyn_result.keys = {"results", "control", "signals", "generated_code"}
             /\ dyn_result.generated_code = dyn_call.llm_result.code
             /\ dyn_result.results.count = Cardinality(dyn_call.llm_result.code.days)
             /\ dyn_result.control.keys = dyn_result.results.keys
                    \/ dyn_result.results.count = 0
    /\ "error" \in dyn_result.keys => dyn_result.keys = {"error"}

\* C9: when the run has ended every hypothesis is accepted or discarded,
\* and once the hypothesis in progress is accepted nothing but the end of
\* its loop can follow.
C9_EveryHypothesisEnds ==
    /\ pc \in {"done", "raised"} =>
          \A i \in DOMAIN outcome : outcome[i] \in {"accepted", "discarded"}
    /\ \A i \in DOMAIN outcome :
          (outcome[i] = "accepted" /\ q_idx = i) => (pc = "while" /\ is_valid)

HypothesisLevelCalls ==
    {"generate_backtest_condition", "generate_replacement_question",
     "generate_result_interpretation"}

\* C10: no outcome of a call made for a hypothesis makes the function
\* raise, and what it returns lists the accepted hypotheses.
C10_NeverRaises ==
    /\ raised_by \notin HypothesisLevelCalls
    /\ returned.done =>
          /\ Len(returned.questions) = Len(validated_questions)
          /\ \A k \in 1..Len(returned.questions) :
                returned.questions[k] = analysis.questions[validated_questions[k]]

SummarizerText == "The signal shows a strong short-term edge."

Placeholder == "Results interpretation unavailable."

\* C11: whatever the summarizer answers, a hypothesis whose attempt passed
\* is accepted: the run does not end in the summarizer's call, and every
\* accepted q_obj holds the summarizer's text or else the placeholder.
C11_SummarizerNeverBlocks ==
    /\ raised_by # "generate_result_interpretation"
    /\ \A k \in 1..Len(validated_questions) :
          LET q == analysis.questions[validated_questions[k]]
          IN  /\ "result_explanation" \in q.keys
              /\ q.result_explanation \in {SummarizerText, Placeholder}

RecordKeys == {"code", "periods", "results", "result_explanation"}

\* A q_obj that is complete and consistent in itself: it holds the four
\* entries, its results are those of an execution without error of its own
\* code, with an entry for each of its own horizons, and its interpretation
\* is a text.
CompleteRecord(q) ==
    /\ RecordKeys \subseteq q.keys
    /\ q.code.kind \notin {"empty", "syntax_error", "no_condition"}
    /\ q.results.keys = {"results", "control", "signals", "generated_code"}
    /\ q.results.generated_code = q.code
    /\ q.results.results.count = Cardinality(Subset(price, filter_dates(price, q.code)))
    /\ q.results.results.keys = RequestedPeriods(q)
    /\ q.result_explanation \in {SummarizerText, Placeholder}

\* The step that appends a q_obj appends the one in progress, whose text is
\* the text the generator was asked with, whose code and horizons are what
\* the generator answered, and whose results are those of the execution of
\* that code; a q_obj once appended is not changed.
C12_Step ==
    /\ validated_questions' # validated_questions =>
          /\ validated_questions' = Append(validated_questions, q_idx)
          /\ LET q == analysis'.questions[q_idx]
             IN  /\ q.question = gen_request
                 /\ q.question = current_question_text
                 /\ q.code = llm_gen_result.code
                 /\ q.periods = llm_gen_result.periods
                 /\ q.results = test_result
                 /\ test_result =
                       _execute_code(llm_gen_result.code, price, cols,
                                     llm_gen_result.periods).result
    /\ \A k \in 1..Len(validated_questions) :
          analysis'.questions[validated_questions[k]]
              = analysis.questions[validated_questions[k]]

\* What is returned and what is in the cache file: the accepted q_obj's in
\* order, each complete; the file holds nothing or what was returned.
C12_Returned ==
    /\ \A k \in 1..Len(validated_questions) :
          /\ outcome[validated_questions[k]] = "accepted"
          /\ CompleteRecord(analysis.questions[validated_questions[k]])
    /\ returned.done =>
          /\ returned.questions =
                [k \in 1..Len(validated_questions) |->
                    analysis.questions[validated_questions[k]]]
          /\ \A k \in 1..Len(returned.questions) :
                CompleteRecord(returned.questions[k])
    /\ cache_file \in {NotReturned, returned}

C13_SingleFlight ==
    /\ loads <= 1
    /\ \A t, u \in Threads :
          (Caller(t, "done") /\ Caller(u, "done")) => callers[t].bt = callers[u].bt

\* C14: no step of a handler that executes a predicate and analyses its
\* mask changes the price rows or a column the store holds; a step only adds
\* forward-return columns.
C14_Step ==
    /\ price' = price
    /\ \A p \in DOMAIN cols : p \in DOMAIN cols' /\ cols'[p] = cols[p]

C14_StoreOnlyGrows == [][C14_Step]_vars

\* The trading-day offset of the horizons of the calls on the store.
OffsetOf == (P1D :> 1) @@ (P2D :> 2) @@ canonical_periods

\* The forward return of day i at offset d, from the prices.
ForwardReturnAt(i, d) ==
    IF i + d <= Len(price)
    THEN [nan |-> FALSE, num |-> price[i + d] - price[i], den |-> price[i]]
    ELSE [nan |-> TRUE, num |-> 0, den |-> 1]

\* C15: under every interleaving of get_signals calls (their check and
\* their write being separate steps) and analyze calls, every column of the
\* store, memoized or precomputed, is the forward return of the prices at
\* its horizon's offset, so are the values a get_signals call has copied,
\* and analyze returns what it returns on a store without memoized columns.
C15_MemoizationIsIdempotent ==
    /\ \A p \in DOMAIN cols :
          /\ p \in DOMAIN OffsetOf
          /\ DOMAIN cols[p] = 1..Len(price)
          /\ \A i \in 1..Len(price) : cols[p][i] = ForwardReturnAt(i, OffsetOf[p])
    /\ \A t \in Threads :
          \A p \in DOMAIN sig_calls[t].subset :
             \A i \in sig_calls[t].days :
                sig_calls[t].subset[p][i] = ForwardReturnAt(i, OffsetOf[p])
    /\ bt_call.fn = "analyze" =>
          bt_result.analysis =
              analyze(price, _precalculate_forward_returns(price),
                      BoolMask(price, bt_call.days), bt_call.periods)

\* Two get_signals calls have both found "1D" missing and both written it,
\* and an analyze call for "1D" has then read the memoized column.
C15_Witness ==
    /\ \A t \in 1..2 : /\ sig_calls[t].pc = "check" /\ sig_calls[t].writes > 0
                       /\ sig_calls[t].periods = <<P1D>>
                       /\ P1D \in DOMAIN sig_calls[t].subset
    /\ P1D \in DOMAIN cols
    /\ bt_call.fn = "analyze" /\ bt_call.periods = <<P1D>>
    /\ bt_result.analysis.val[P1D].tag = "stats"

\* C16: once a Backtester is constructed, the column of every canonical
\* horizon holds, for each day i, no value when day i + d is past the last
\* day (d the horizon's offset) and price[i+d]/price[i] - 1 otherwise: a
\* value fixed by the prices of day i and of the later day i + d alone.
C16_ForwardReturnsLookAhead ==
    bt # 0 =>
       \A p \in DOMAIN canonical_periods :
          /\ p \in DOMAIN cols
          /\ DOMAIN cols[p] = 1..Len(price)
          /\ \A i \in 1..Len(price) :
                LET d == canonical_periods[p]
                IN  IF i + d > Len(price)
                    THEN cols[p][i].nan
                    ELSE /\ ~cols[p][i].nan
                         /\ cols[p][i].num = price[i + d] - price[i]
                         /\ cols[p][i].den = price[i]

\* A store is constructed whose "1W" return of day 1 is a loss and of day 3
\* is missing, and which has no "3Y" return at all.
C16_Witness ==
    /\ bt # 0 /\ loads > 0
    /\ ~cols[P1W][1].nan /\ cols[P1W][1].num < 0
    /\ cols[P1W][3].nan
    /\ \A i \in 1..Len(price) : cols[P3Y][i].nan

\* The call on the store was an analysis that returned.
Analysed == bt_call.fn \in {"analyze", "get_baseline_stats"} /\ ~bt_result.raised

\* C17: the count analyze reports is the number of days of the mask,
\* whatever the number of them that hold a forward return for a requested
\* horizon (no entry counts more values than that).
C17_CountIsMaskDays ==
    Analysed =>
       /\ bt_result.analysis.count = Cardinality(bt_call.days)
       /\ \A p \in DOMAIN bt_result.analysis.val :
             bt_result.analysis.val[p].n <= bt_result.analysis.count

\* A mask of two days of which one has a "1W" return, and a requested "3Y"
\* of which neither has: the count is 2 beside "Data not available".
C17_Witness ==
    /\ bt_call.fn = "analyze" /\ bt_call.days = {2, NDays}
    /\ bt_call.periods = <<P1W, P3Y>>
    /\ bt_result.analysis.count = 2
    /\ bt_result.analysis.val[P1W].n = 1
    /\ bt_result.analysis.val[P3Y].tag = DataNotAvailable

\* The days of the analysed mask that hold a forward return at offset d,
\* and those of them whose return is above zero, from the prices.
NonNullDays(d) == {i \in bt_call.days : i + d <= Len(price)}

WinningDays(d) == {i \in NonNullDays(d) : price[i + d] > price[i]}

\* C18: the entry of a horizon is a stats dict whose win rate is the share
\* wins/n of the mask's days with a forward return whose return is strictly
\* positive, n being the number of those days, exactly when the mask has
\* such a day; when it has none the entry is the "Data not available"
\* marker and no win rate.
C18_WinRateOverNonNull ==
    Analysed =>
       \A p \in DOMAIN bt_result.analysis.val :
          p \in DOMAIN OffsetOf =>
             LET e == bt_result.analysis.val[p]
                 d == OffsetOf[p]
             IN  IF NonNullDays(d) = {}
                 THEN e.tag = DataNotAvailable
                 ELSE /\ e.tag = "stats"
                      /\ e.n = Cardinality(NonNullDays(d))
                      /\ e.wins = Cardinality(WinningDays(d))
                      /\ e.wins <= e.n

\* Of the two days of a mask one has a positive and one a negative "1W"
\* return (win rate 1/2), and neither has a "3Y" return.
C18_Witness ==
    /\ bt_call.fn = "analyze" /\ bt_call.periods = <<P1W, P3Y>>
    /\ bt_call.days = {1, 2}
    /\ price = Mixed
    /\ bt_result.analysis.val[P1W].n = 2
    /\ bt_result.analysis.val[P1W].wins = 1
    /\ bt_result.analysis.val[P3Y].tag = DataNotAvailable

LongOffsetOf == (P756D :> 756) @@ (P36M :> 756) @@ canonical_periods

\* The sum of the forward returns at offset d of the days S, as a fraction
\* that is not reduced.
RECURSIVE ReturnSum(_, _)
ReturnSum(S, d) ==
    IF S = {} THEN [num |-> 0, den |-> 1]
    ELSE LET i == CHOOSE j \in S : TRUE
             rest == ReturnSum(S \ {i}, d)
         IN  [num |-> (price[i + d] - price[i]) * rest.den + rest.num * price[i],
              den |-> price[i] * rest.den]

YearsOf(p) == IF p = P3Y THEN 3 ELSE IF p = P5Y THEN 5 ELSE 10

\* C19: the mean of a stats entry being the mean of the mask's forward
\* returns, its CAGR is a number exactly when the horizon is named "3Y",
\* "5Y" or "10Y" and the mean is above -1, and is then the real number
\* (1 + mean)^(1/years) - 1 with years 3, 5, 10 (kept as the base 1 + mean
\* and the root); for every other horizon, and for a mean of -1 or less, it
\* is None.
C19_CagrWhenLongHorizonAndMeanAboveMinusOne ==
    Analysed =>
       \A p \in DOMAIN bt_result.analysis.val :
          LET e == bt_result.analysis.val[p]
              sum == ReturnSum(NonNullDays(LongOffsetOf[p]), LongOffsetOf[p])
          IN  e.tag = "stats" =>
                /\ e.mean.den > 0
                /\ e.mean.num * sum.den * e.n = sum.num * e.mean.den
                /\ e.cagr.isNone =
                      ~(p \in {P3Y, P5Y, P10Y} /\ e.mean.num > 0 - e.mean.den)
                /\ ~e.cagr.isNone =>
                      /\ e.cagr.years = YearsOf(p)
                      /\ e.cagr.base.num * e.mean.den
                            = (e.mean.den + e.mean.num) * e.cagr.base.den
                      /\ e.cagr.base.num > 0 /\ e.cagr.base.den > 0

\* One analysis with the three cases: "1Y" has data and no CAGR, "3Y" has
\* mean -1/2 and the CAGR (1/2)^(1/3) - 1, "10Y" has mean -1 and no CAGR.
C19_Witness ==
    /\ bt_call.fn = "analyze" /\ bt_call.periods = <<P1Y, P3Y, P10Y>>
    /\ bt_call.days = {1, LongDays - 756}
    /\ price = LastDayZero
    /\ LET v == bt_result.analysis.val
       IN  /\ v[P1Y].tag = "stats" /\ v[P1Y].cagr.isNone
           /\ v[P3Y].mean = [num |-> 0 - 1, den |-> 2]
           /\ v[P3Y].cagr = [isNone |-> FALSE, base |-> [num |-> 1, den |-> 2],
                             years |-> 3]
           /\ v[P10Y].tag = "stats" /\ v[P10Y].mean = [num |-> 0 - 1, den |-> 1]
           /\ v[P10Y].cagr.isNone

\* A horizon that has no store column and whose text gives no number of
\* days: an unknown unit, or a number part that is no integer or is empty.
Unparsable(p) ==
    /\ p \notin DOMAIN canonical_periods
    /\ \/ Len(p) = 0
       \/ p[Len(p)] \notin {"D", "W", "M", "Y"}
       \/ ~AllDigits(SubSeq(p, 1, Len(p) - 1))

\* C20: no call of analyze or get_signals raises for its horizons, and an
\* analysis of a mask with a day reports "Invalid period format" for every
\* unparsable horizon beside an entry for each other horizon of the list.
C20_UnparsableHorizonIsMarked ==
    /\ ~bt_result.raised
    /\ (bt_call.fn = "analyze" /\ bt_call.days # {}) =>
          \A k \in 1..Len(bt_call.periods) :
             LET p == bt_call.periods[k]
             IN  /\ p \in DOMAIN bt_result.analysis.val
                 /\ Unparsable(p) =>
                       bt_result.analysis.val[p].tag = "Invalid period format"

\* C21: get_baseline_stats(H) returns what analyze returns for the mask
\* that is true on every trading day and the same horizons H (an exception
\* of the one being an exception of the other), on the store as loaded and
\* on the store with on-demand columns memoized; its count is the number
\* of trading days.
C21_BaselineIsAnalyzeOfAllTrue ==
    bt_call.fn = "get_baseline_stats" =>
       /\ bt_result.analysis =
             analyze(price, cols, [shape |-> "mask", m |-> [i \in 1..Len(price) |-> TRUE]],
                     bt_call.periods)
       /\ bt_result.raised = bt_result.analysis.raised
       /\ ~bt_result.raised => bt_result.analysis.count = Len(price)

\* A baseline over "1D" read from the column an earlier get_signals stored.
C21_Witness ==
    /\ bt_call.fn = "get_baseline_stats" /\ bt_call.periods = <<P1D>>
    /\ P1D \in DOMAIN cols
    /\ ~bt_result.raised
    /\ bt_result.analysis.count = NDays
    /\ bt_result.analysis.val[P1D].tag = "stats"
    /\ bt_result.analysis.val[P1D].n = NDays - 1

\* Two results of analyze that Python's == on dicts cannot tell apart: the
\* same exception, or the same count and the same entry under every key
\* (the insertion order of the keys is no part of a dict's value).
SameAnalysis(a, b) ==
    /\ a.raised = b.raised /\ a.exc = b.exc
    /\ a.count = b.count
    /\ a.val = b.val
    /\ {a.keys[k] : k \in 1..Len(a.keys)} = {b.keys[k] : k \in 1..Len(b.keys)}

\* The orderings of a set of horizons.
Orderings(S) ==
    {h \in [1..Cardinality(S) -> S] : \A i, j \in 1..Cardinality(S) : h[i] = h[j] => i = j}

\* H with the horizons at positions k and k + 1 exchanged.
SwapAt(H, k) ==
    [i \in 1..Len(H) |-> IF i = k THEN H[k + 1] ELSE IF i = k + 1 THEN H[k] ELSE H[i]]

Reversed(H) == [i \in 1..Len(H) |-> H[Len(H) + 1 - i]]

\* Horizons of every kind: precomputed, on demand, without data, marked
\* invalid, and one on which int() raises.
OrderPool == {P1W, P1D, P3Y, <<"1", "Q">>, <<"x", "D">>}

\* C22: the result of analyze(mask, H) does not depend on the order of H:
\* exchanging two neighbours of the analysed list, or reversing it, gives
\* the same count and the same per-horizon entries (or the same exception),
\* and so does every ordering of any three horizons of the pool.
C22_AnalyzeIgnoresHorizonOrder ==
    bt_call.fn = "analyze" =>
       LET mask == BoolMask(price, bt_call.days)
           H == bt_call.periods
       IN  /\ \A k \in 1..(Len(H) - 1) :
                 SameAnalysis(bt_result.analysis, analyze(price, cols, mask, SwapAt(H, k)))
           /\ SameAnalysis(bt_result.analysis, analyze(price, cols, mask, Reversed(H)))
           /\ \A S \in {T \in SUBSET OrderPool : Cardinality(T) = 3} :
                 \A g, h \in Orderings(S) :
                    SameAnalysis(analyze(price, cols, mask, g),
                                 analyze(price, cols, mask, h))

\* ["1W", "1Q"] analysed on a day with a "1W" return: statistics and the
\* invalid-format marker, which ["1Q", "1W"] yields under keys inserted in
\* the other order.
C22_Witness ==
    /\ bt_call.fn = "analyze" /\ bt_call.days = {1}
    /\ bt_call.periods = <<P1W, <<"1", "Q">> >>
    /\ bt_result.analysis.count = 1
    /\ bt_result.analysis.val[P1W].tag = "stats"
    /\ bt_result.analysis.val[<<"1", "Q">>].tag = "Invalid period format"
    /\ bt_result.analysis.keys = <<P1W, <<"1", "Q">> >>
    /\ analyze(price, cols, BoolMask(price, {1}), << <<"1", "Q">>, P1W>>).keys
          = << <<"1", "Q">>, P1W>>

\* C23: expand_monthly_mask returns a boolean series indexed by exactly the
\* daily index it was given (same length, same order), in which a day is
\* true if and only if the coarse mask holds a true entry for the year and
\* month of that day; a month without entry, or with a null or false entry,
\* gives false, and an entry of the same month of another year does not
\* count.
C23_ExpandMonthlyMask ==
    bt_call.fn = "expand_monthly_mask" =>
       LET mm == bt_call.monthly_mask
           di == bt_call.daily_index
           out == bt_result.series
       IN  /\ ~bt_result.raised
           /\ out.index = di
           /\ DOMAIN out.values = 1..Len(di)
           /\ \A i \in 1..Len(di) :
                 /\ out.values[i] \in BOOLEAN
                 /\ out.values[i] <=>
                       \E k \in 1..Len(mm) :
                          /\ mm[k].v = "True"
                          /\ mm[k].ts.y = di[i].y /\ mm[k].ts.m = di[i].m

\* January 2022 true and February 2022 null in the coarse mask: a day of
\* January 2023 listed before a day of January 2022 gives <<false, true>>.
C23_Witness ==
    /\ bt_call.fn = "expand_monthly_mask"
    /\ bt_call.monthly_mask =
          <<[ts |-> [y |-> 2022, m |-> 1, d |-> 31], v |-> "True"],
            [ts |-> [y |-> 2022, m |-> 2, d |-> 28], v |-> "NaN"]>>
    /\ bt_call.daily_index =
          <<[y |-> 2023, m |-> 1, d |-> 3], [y |-> 2022, m |-> 1, d |-> 3]>>
    /\ bt_result.series.values = <<FALSE, TRUE>>

\* C24: predicate source run by _execute_code reaches the data handle given
\* to `condition` and the period-expansion helper and nothing else: no
\* other name resolves in its environment, and source that imports a
\* module is refused (the request ends in the error dict).
C24_PredicateReachesOnlyDataAndHelper ==
    (dyn_call.fn # "" /\ dyn_call.llm_result.kind = "dict"
                      /\ dyn_call.llm_result.code.kind = "imports")
        => /\ dyn_result.keys = {"error"}
           /\ \A n \in exec_globals(local_scope) \cup Builtins :
                 Resolves(n, local_scope) => n = "expand_monthly_mask"

\* C25: every accepted record stores the resolved horizon list: the list
\* under its "periods" key is the list of the horizons that have an entry
\* in its attached analysis, which is the generator's list or, when the
\* generator gave none, the eight canonical horizons.
C25_StoredHorizonsAreAnalysed ==
    \A k \in 1..Len(validated_questions) :
       LET q == analysis.questions[validated_questions[k]]
       IN  /\ "periods" \in q.keys
           /\ ~q.periods.isNone
           /\ q.periods.list = q.results.results.keys

\* C26: no accepted record has, in its attached analysis, a requested
\* horizon marked "Invalid period format": such an attempt fails like one
\* with a horizon marked "Data not available".
C26_InvalidHorizonNotAccepted ==
    \A k \in 1..Len(validated_questions) :
       LET res == analysis.questions[validated_questions[k]].results.results
       IN  \A p \in DOMAIN res.val : res.val[p].tag # "Invalid period format"

\* C27: a hypothesis is discarded with fewer than 3 failed attempts if and
\* only if it is discarded by a replacement request that returned no
\* question text (the `break` of line 392); every other discard is the end
\* of the while loop with exactly 3 failed attempts, each of which asked
\* for a predicate.
C27_Step ==
    \A i \in 1..Len(outcome) :
       (outcome[i] = "pending" /\ outcome'[i] = "discarded") =>
          /\ i = q_idx
          /\ attempts \in 1..max_attempts
          /\ attempts < max_attempts <=> pc = "replace"
          /\ pc = "replace" => repl_since_failure = 0 /\ ~is_valid
          /\ pc # "replace" =>
                /\ pc = "while" /\ ~is_valid
                /\ attempts = max_attempts /\ gen_calls = max_attempts

C27_EarlyDiscardIffNoReplacement == [][C27_Step]_vars

\* The run has left the loop after its last hypothesis was discarded with
\* one failed attempt: the replacement asked for after it had no question.
C27_Witness ==
    /\ pc = "save"
    /\ Len(outcome) > 0 /\ outcome[Len(outcome)] = "discarded"
    /\ attempts = 1

\* C28: a predicate whose mask has no true day is analysed as exactly
\* {count: 0}, with no entry for any horizon, whatever the horizon list
\* (unavailable and unparsable horizons included), and the validation loop
\* classifies the attempt as zero occurrences, never as data not available
\* or anything else.
C28_EmptyMaskIsZeroOccurrences ==
    (Executed /\ llm_gen_result.code.kind = "mask" /\ llm_gen_result.code.days = {})
        => /\ analyze(price, cols, BoolMask(price, {}),
                      IF llm_gen_result.periods.isNone THEN default_periods
                      ELSE llm_gen_result.periods.list) = NoAnalysis
           /\ "error" \notin test_result.keys
           /\ test_result.results = NoAnalysis
           /\ failure_reason.kind = "Zero occurrences found in history"

\* C29: the accepted records are an order-preserving subsequence of the
\* generator's hypothesis list: the hypotheses accepted so far are in
\* proposal order, none twice, and the list returned holds one record for
\* each, in that order, under the original text of that hypothesis or a
\* replacement of it.
C29_AcceptedIsSubsequence ==
    /\ \A k \in 1..Len(validated_questions) :
          validated_questions[k] \in 1..Len(analysis.questions)
    /\ \A j, k \in 1..Len(validated_questions) :
          j < k => validated_questions[j] < validated_questions[k]
    /\ returned.done =>
          /\ Len(returned.questions) = Len(validated_questions)
          /\ Len(returned.questions) <= Len(analysis.questions)
          /\ \A k \in 1..Len(returned.questions) :
                returned.questions[k].question.hyp = validated_questions[k]

\* Two hypotheses were proposed and both are returned in proposal order,
\* the second under a replacement text.
C29_Witness ==
    /\ returned.done
    /\ Len(analysis.questions) = 2
    /\ Len(returned.questions) = 2
    /\ returned.questions[1].question = Text(1, 0)
    /\ returned.questions[2].question = Text(2, 1)

\* C30: merge_data returns a frame on the trading-day index of the price
\* frame, with the prices as they were; on each trading day its valuation
\* ratio is that of the valuation record of the latest date on or before
\* the day (null when there is none, never the ratio of a later record);
\* without valuation data it returns the price frame with no ratio column.
C30_MergeIsBackwardAsOf ==
    bt_call.fn = "merge_data" =>
       LET pf == bt_call.price_df
           pe == bt_call.pe_df
           out == bt_result.frame
       IN  /\ ~bt_result.raised
           /\ out.index = pf.index /\ out.adj = pf.adj
           /\ pe.isNone => out = pf /\ "PE" \notin out.columns
           /\ ~pe.isNone =>
                 /\ out.columns = pf.columns \cup {"PE"}
                 /\ DOMAIN out.PE = 1..Len(pf.index)
                 /\ \A i \in 1..Len(pf.index) :
                       LET onOrBefore == {r \in {pe.rows[k] : k \in 1..Len(pe.rows)} :
                                             r.date <= pf.index[i]}
                       IN  IF onOrBefore = {} THEN out.PE[i] = PENull
                           ELSE \E r \in onOrBefore :
                                   /\ \A o \in onOrBefore : o.date <= r.date
                                   /\ out.PE[i] = r.pe

\* Records dated 2 (ratio 15) and 4 (ratio 30), trading days 1, 3 and 4:
\* null on day 1, 15 on day 3 (not the 30 dated after it), 30 on day 4.
C30_Witness ==
    /\ bt_call.fn = "merge_data"
    /\ bt_call.price_df.index = <<1, 3, 4>>
    /\ bt_call.pe_df.rows = <<[date |-> 2, pe |-> PEVal(15)], [date |-> 4, pe |-> PEVal(30)]>>
    /\ bt_result.frame.PE = <<PENull, PEVal(15), PEVal(30)>>

====
